---------------------------- MODULE Spec2Model ----------------------------
(***************************************************************************)
(* Model of src/server.js: the price-aggregation proxy (Express).          *)
(*                                                                         *)
(* Text (store names, queries, size texts, price texts) is a sequence of   *)
(* one-character strings, so that toLowerCase, split, trim, the two size   *)
(* regular expressions and parseFloat are computed character by character. *)
(*                                                                         *)
(* Numbers: JavaScript doubles are modelled by exact decimals.  A price or *)
(* an amount is an integer count of thousandths (4.5 is 4500); a kilogram  *)
(* value is an integer count of millionths (0.25 kg is 250000).  A value   *)
(* that may be null or NaN is tagged: Null, NaN or Num(v).  Inputs are     *)
(* kept to at most three fractional digits, where this is exact.           *)
(***************************************************************************)
EXTENDS Integers, Sequences, FiniteSets, TLC

Null   == [k |-> "null"]
NaN    == [k |-> "nan"]
Num(v) == [k |-> "num", v |-> v]
IsNum(x) == x.k = "num"

\* a query parameter, or a label: a text, or undefined
Absent  == [def |-> FALSE, s |-> <<>>]
Text(s) == [def |-> TRUE, s |-> s]

(***************************************************************************)
(* Characters                                                              *)
(***************************************************************************)
UpperLetters == <<"A","B","C","D","E","F","G","H","I","J","K","L","M",
                  "N","O","P","Q","R","S","T","U","V","W","X","Y","Z">>
LowerLetters == <<"a","b","c","d","e","f","g","h","i","j","k","l","m",
                  "n","o","p","q","r","s","t","u","v","w","x","y","z">>
Digits == <<"0","1","2","3","4","5","6","7","8","9">>

\* the index of character c in the sequence t, 0 when it is not there
IndexIn(c, t) == IF \E i \in 1..Len(t) : t[i] = c
                 THEN CHOOSE i \in 1..Len(t) : t[i] = c
                 ELSE 0

\* \d
IsDigit(c) == IndexIn(c, Digits) > 0
\* [\d.]
IsNumCh(c) == IsDigit(c) \/ c = "."
\* \s (the model's texts hold no other white space than the blank)
IsSpace(c) == c = " "
\* \w, for the word boundary \b
IsWordCh(c) == IsDigit(c) \/ IndexIn(c, UpperLetters) > 0
                \/ IndexIn(c, LowerLetters) > 0 \/ c = "_"

\* String.prototype.toLowerCase, one character
LowerCh(c) == IF IndexIn(c, UpperLetters) > 0
              THEN LowerLetters[IndexIn(c, UpperLetters)]
              ELSE c
\* String.prototype.toLowerCase
ToLowerCase(s) == [i \in 1..Len(s) |-> LowerCh(s[i])]

\* the value of a digit character
DigitVal(c) == IndexIn(c, Digits) - 1

(***************************************************************************)
(* Number(text) and parseFloat(text) on texts of digits and points         *)
(***************************************************************************)
RECURSIVE DigitsVal(_)
\* the integer a run of digits denotes (0 for the empty run)
DigitsVal(s) == IF Len(s) = 0 THEN 0
                ELSE 10 * DigitsVal(SubSeq(s, 1, Len(s) - 1)) + DigitVal(s[Len(s)])

\* the fraction digits f as thousandths (the first three digits count)
FracMilli(f) == LET d(i) == IF i <= Len(f) THEN DigitVal(f[i]) ELSE 0
                IN  100 * d(1) + 10 * d(2) + d(3)

\* the thousandths a decimal literal (digits, at most one point, at least one
\* digit) denotes
DecimalMilli(s) ==
    LET p == IndexIn(".", s)
    IN  IF p = 0 THEN 1000 * DigitsVal(s)
        ELSE 1000 * DigitsVal(SubSeq(s, 1, p - 1)) + FracMilli(SubSeq(s, p + 1, Len(s)))

\* a decimal literal: only digits and points, at most one point, a digit
IsDecimal(s) ==
    /\ \A i \in 1..Len(s) : IsNumCh(s[i])
    /\ Cardinality({i \in 1..Len(s) : s[i] = "."}) <= 1
    /\ \E i \in 1..Len(s) : IsDigit(s[i])

\* Number(s) for a non-empty text s of digits and points: NaN unless s is a
\* decimal literal
NumberOf(s) == IF IsDecimal(s) THEN Num(DecimalMilli(s)) ELSE NaN

\* parseFloat(s) for a text s of digits and points: the longest prefix that is
\* a decimal literal, NaN when no prefix is one
ParseFloat(s) ==
    LET ok == {n \in 1..Len(s) : IsDecimal(SubSeq(s, 1, n))}
    IN  IF ok = {} THEN NaN
        ELSE Num(DecimalMilli(SubSeq(s, 1, CHOOSE n \in ok : \A m \in ok : m <= n)))

RECURSIVE Strip(_)
\* v.replace(/[^\d.]/g, '')
Strip(s) == IF Len(s) = 0 THEN <<>>
            ELSE IF IsNumCh(Head(s)) THEN <<Head(s)>> \o Strip(Tail(s))
            ELSE Strip(Tail(s))

(***************************************************************************)
(* A raw price is null, a number or a text:                                *)
(*   [t |-> "null"], [t |-> "num", v |-> thousandths], [t |-> "str", s],   *)
(*   or another JSON value (an object), [t |-> "obj"].                     *)
(***************************************************************************)
NullRaw    == [t |-> "null"]
NumRaw(v)  == [t |-> "num", v |-> v]
StrRaw(s)  == [t |-> "str", s |-> s]
ObjRaw     == [t |-> "obj"]

\* toNumber: null for null or undefined; a text is stripped and parsed, any
\* other value goes through Number(v); a non-finite result (NaN) is null
toNumber(v) ==
    IF v.t = "null" THEN Null
    ELSE LET n == CASE v.t = "str" -> ParseFloat(Strip(v.s))
                    [] v.t = "num" -> Num(v.v)
                    [] OTHER       -> NaN
         IN  IF IsNum(n) THEN n ELSE Null

(***************************************************************************)
(* unitToKg and sizeToKg                                                   *)
(***************************************************************************)
\* unitToKg(q, u): q an amount (thousandths) or NaN, u a unit text; the
\* kilograms in millionths, NaN for a NaN amount, null for an unknown unit
unitToKgLower(q, lu) ==
    CASE lu = <<"g">>      -> IF IsNum(q) THEN Num(q.v) ELSE NaN
      [] lu = <<"k","g">>  -> IF IsNum(q) THEN Num(1000 * q.v) ELSE NaN
      [] lu = <<"m","l">>  -> IF IsNum(q) THEN Num(q.v) ELSE NaN
      [] lu = <<"l">>      -> IF IsNum(q) THEN Num(1000 * q.v) ELSE NaN
      [] OTHER             -> Null
unitToKg(q, u) == unitToKgLower(q, ToLowerCase(u))

\* the alternation (g|kg|ml|l), in its order
Units == << <<"g">>, <<"k","g">>, <<"m","l">>, <<"l">> >>

\* a greedy run: the position after the longest run of P-characters of s that
\* starts at position i
RunEnd(P(_), s, i) ==
    CHOOSE j \in i..(Len(s) + 1) :
        /\ \A k \in i..(j - 1) : P(s[k])
        /\ (j = Len(s) + 1 \/ ~P(s[j]))

\* (g|kg|ml|l)\b under the i flag at position p of s: the index in Units of
\* the first alternative that matches there and ends at a word boundary, 0
\* when none does
UnitAt(s, p) ==
    LET fits(n) == LET e == p + Len(Units[n]) - 1
                   IN  /\ e <= Len(s)
                       /\ ToLowerCase(SubSeq(s, p, e)) = Units[n]
                       /\ (e = Len(s) \/ ~IsWordCh(s[e + 1]))
        ok == {n \in 1..Len(Units) : fits(n)}
    IN  IF ok = {} THEN 0 ELSE CHOOSE n \in ok : \A m \in ok : n <= m

\* the order in which backtracking visits the ways a sequence of greedy
\* quantifiers can match: longer first, the earlier quantifier deciding
RECURSIVE LexGE(_, _)
LexGE(a, b) == IF Len(a) = 0 THEN TRUE
               ELSE IF a[1] # b[1] THEN a[1] > b[1]
               ELSE LexGE(Tail(a), Tail(b))
First(S) == CHOOSE a \in S : \A b \in S : LexGE(a, b)

\* /(\d+)\s*x\s*([\d.]+)\s*(g|kg|ml|l)\b/i tried at position i of s: the ways
\* it matches there, each <<d, x, q, a, p>>: the digits are s[i..d-1], the x is
\* s[x], the amount is s[q..a-1] and the unit starts at p
MultiAt(s, i) ==
    UNION {UNION {UNION {UNION {
        {<<d, x, q, a, p>> :
            p \in {p \in a..RunEnd(IsSpace, s, a) : UnitAt(s, p) > 0}} :
          a \in (q + 1)..RunEnd(IsNumCh, s, q)} :
          q \in (x + 1)..RunEnd(IsSpace, s, x + 1)} :
          x \in {x \in d..RunEnd(IsSpace, s, d) :
                     x <= Len(s) /\ LowerCh(s[x]) = "x"}} :
          d \in (i + 1)..RunEnd(IsDigit, s, i)}

\* /([\d.]+)\s*(g|kg|ml|l)\b/i tried at position i of s: the ways it matches
\* there, each <<a, p>>: the amount is s[i..a-1] and the unit starts at p
SingleAt(s, i) ==
    UNION {{<<a, p>> :
               p \in {p \in a..RunEnd(IsSpace, s, a) : UnitAt(s, p) > 0}} :
             a \in (i + 1)..RunEnd(IsNumCh, s, i)}

\* n * kg, kg a number or NaN
MultiTimes(n, kg) == IF IsNum(kg) THEN Num(n * kg.v) ELSE NaN

\* the least member of a non-empty set of positions: the leftmost match
Leftmost(S) == CHOOSE i \in S : \A j \in S : i <= j

\* Number(m[1]) * unitToKg(Number(m[2]), m[3]) for the multi-pack match m
\* found at position i
MultiKg(s, i, m) ==
    MultiTimes(DigitsVal(SubSeq(s, i, m[1] - 1)),
               unitToKg(NumberOf(SubSeq(s, m[3], m[4] - 1)), Units[UnitAt(s, m[5])]))

\* unitToKg(Number(m[1]), m[2]) for the single match m found at position i
SingleKg(s, i, m) ==
    unitToKg(NumberOf(SubSeq(s, i, m[1] - 1)), Units[UnitAt(s, m[2])])

MultiKgAt(s, i)  == MultiKg(s, i, First(MultiAt(s, i)))
SingleKgAt(s, i) == SingleKg(s, i, First(SingleAt(s, i)))

\* sizeToKg, given the positions mi where the multi-pack pattern matches and
\* the positions si where the single pattern does
SizeFrom(s, mi, si) ==
    IF mi # {} THEN MultiKgAt(s, Leftmost(mi))
    ELSE IF si # {} THEN SingleKgAt(s, Leftmost(si))
    ELSE Null

\* the slip of trying the single pattern first
sizeToKgSingleFirst(s) ==
    IF \E i \in 1..Len(s) : SingleAt(s, i) # {}
    THEN SingleKgAt(s, Leftmost({i \in 1..Len(s) : SingleAt(s, i) # {}}))
    ELSE IF \E i \in 1..Len(s) : MultiAt(s, i) # {}
    THEN MultiKgAt(s, Leftmost({i \in 1..Len(s) : MultiAt(s, i) # {}}))
    ELSE Null

\* sizeToKg(s): the multi-pack pattern first, then the single pattern, each at
\* its leftmost match; null when neither matches
sizeToKg(s) ==
    SizeFrom(s, {i \in 1..Len(s) : MultiAt(s, i) # {}},
                {i \in 1..Len(s) : SingleAt(s, i) # {}})

(***************************************************************************)
(* The normalization loop of callStoreSearch                               *)
(*                                                                         *)
(* A raw result, after camelCase(raw, {deep: true}), is a record           *)
(*   [productName, productSize, packageSize, size, currentPrice, price,    *)
(*    productUrl, productId]                                               *)
(* whose texts are <<>> when the provider leaves them out and whose prices *)
(* are NullRaw when it does.  (camelCase turns a key Price into price, so  *)
(* obj.Price is never there.)                                              *)
(***************************************************************************)
\* a || b on texts: the empty text is falsy
OrText(a, b) == IF a # <<>> THEN a ELSE b
\* a ?? b on raw prices: only null and undefined are passed over
Coalesce(a, b) == IF a.t # "null" THEN a ELSE b

\* truthiness of a number that may be null or NaN: a number other than 0
Truthy(x) == IsNum(x) /\ x.v # 0

\* n / d rounded to the nearest integer, halves away from zero (d > 0)
RoundDiv(n, d) == IF n >= 0 THEN (2 * n + d) \div (2 * d)
                  ELSE 0 - ((2 * (0 - n) + d) \div (2 * d))

\* the slip of cutting the digits after the second off
PerKgTruncated(price, kg) == 10 * ((100000 * price) \div kg)

\* +(price / kg).toFixed(2): price in thousandths, kg in millionths, the
\* result in thousandths (a whole number of cents)
PerKg(price, kg) == 10 * RoundDiv(100000 * price, kg)

\* pricePerKg: (kg && price) ? +(price / kg).toFixed(2) : null
PricePerKg(kg, price) ==
    IF Truthy(kg) /\ Truthy(price) THEN Num(PerKg(price.v, kg.v)) ELSE Null

\* the Product Record pushed for one raw result
Normalize(obj) ==
    LET sizeS == OrText(obj.productSize, OrText(obj.packageSize, OrText(obj.size, <<>>)))
        kg    == sizeToKg(sizeS)
        price == toNumber(Coalesce(obj.currentPrice, Coalesce(obj.price, NullRaw)))
    IN  [product    |-> obj.productName,
         size       |-> sizeS,
         price      |-> price,
         pricePerKg |-> PricePerKg(kg, price),
         url        |-> obj.productUrl,
         id         |-> obj.productId]

\* the list callStoreSearch builds from r.data.results ?? []
NormalizeAll(results) == [i \in 1..Len(results) |-> Normalize(results[i])]

(***************************************************************************)
(* The comparison of the two lists in /cheapest and /bulk-cheapest-perkg   *)
(* A winner is <<>> (null) or <<p>>.                                       *)
(***************************************************************************)
RECURSIVE Reduce(_, _, _)
\* Array.prototype.reduce(f, init)
Reduce(f(_, _), list, init) ==
    IF Len(list) = 0 THEN init
    ELSE Reduce(f, Tail(list), f(init, Head(list)))

\* a < b where either may be Infinity (null stands for it: x ?? Infinity)
LtInf(a, b) == IsNum(a) /\ (~IsNum(b) \/ a.v < b.v)

\* the slip of <= for <: the last of the cheapest wins
ItemStepLast(best, p) ==
    IF best = <<>> \/ ~LtInf(best[1].price, p.price) THEN <<p>> ELSE best

\* (best, p) => (!best || (p.price ?? Infinity) < (best.price ?? Infinity)) ? p : best
ItemStep(best, p) ==
    IF best = <<>> \/ LtInf(p.price, best[1].price) THEN <<p>> ELSE best

\* the slip of <= for <: the last of the cheapest per kg wins
KgStepLast(best, p) ==
    LET n(x) == IF IsNum(x) THEN x.v ELSE 0
    IN  IF best = <<>> \/ n(p.pricePerKg) <= n(best[1].pricePerKg) THEN <<p>> ELSE best

\* (best, p) => (!best || p.pricePerKg < best.pricePerKg) ? p : best
\* (a comparison with null: null counts as 0)
KgStep(best, p) ==
    LET n(x) == IF IsNum(x) THEN x.v ELSE 0
    IN  IF best = <<>> \/ n(p.pricePerKg) < n(best[1].pricePerKg) THEN <<p>> ELSE best

\* [...coles, ...woolworths].filter(p => p && p.price != null)
Priced(coles, woolworths) ==
    SelectSeq(coles \o woolworths, LAMBDA p : p.price # Null)

\* byItem of /cheapest
ByItem(coles, woolworths) == Reduce(ItemStep, Priced(coles, woolworths), <<>>)

\* byKg of /cheapest
ByKg(coles, woolworths) ==
    Reduce(KgStep,
           SelectSeq(Priced(coles, woolworths), LAMBDA p : p.pricePerKg # Null),
           <<>>)

\* best of /bulk-cheapest-perkg
BulkBest(coles, woolworths) ==
    Reduce(KgStep,
           SelectSeq(coles \o woolworths,
                     LAMBDA p : p.price # Null /\ p.pricePerKg # Null),
           <<>>)

\* String.prototype.includes
Includes(s, sub) ==
    \E i \in 1..(Len(s) - Len(sub) + 1) : SubSeq(s, i, i + Len(sub) - 1) = sub

ColesName      == <<"c","o","l","e","s">>
WoolworthsName == <<"w","o","o","l","w","o","r","t","h","s">>

\* guessStore
guessStore(p) ==
    IF Includes(ToLowerCase(p.url), WoolworthsName) THEN Text(WoolworthsName)
    ELSE IF Includes(ToLowerCase(p.url), ColesName) THEN Text(ColesName)
    ELSE Absent

\* best ? { store: guessStore(best), ...best } : null
Attributed(best) ==
    IF best = <<>> THEN <<>> ELSE <<[store |-> guessStore(best[1]), rec |-> best[1]]>>

(***************************************************************************)
(* getApiInfo and the cache                                                *)
(***************************************************************************)
\* getApiInfo(store): the provider's host, or "null"
getApiInfo(store) ==
    LET s == ToLowerCase(store)
    IN  IF s = ColesName THEN "coles-product-price-api"
        ELSE IF s = WoolworthsName THEN "woolworths-products-api"
        ELSE "null"

\* the default ttl of putCache
TTL == 45000
\* the timeout of the upstream GET
Timeout == 12000

\* `S:${store}|q:${query}|p:${page}|s:${size}`.  The four parts determine the
\* text: callStoreSearch builds a key only for a store name that getApiInfo
\* knows, which holds no "|".
CacheKey(store, query, page, size) == <<store, query, page, size>>

\* the slip of a putCache that leaves the ttl out of `until`
putCacheNoTtl(table, k, v, t, by) ==
    [x \in DOMAIN table \cup {k} |->
        IF x = k THEN [until |-> t, value |-> v, by |-> by] ELSE table[x]]

\* putCache(k, v): the table after cache.set(k, {until: Date.now() + ttl, value: v}).
\* by is history: the call (request, index) that made this put.
putCache(table, k, v, t, by) ==
    [x \in DOMAIN table \cup {k} |->
        IF x = k THEN [until |-> t + TTL, value |-> v, by |-> by] ELSE table[x]]

\* cache.delete(k)
Without(table, k) == [x \in DOMAIN table \ {k} |-> table[x]]

\* the slip of a getCache that never looks at `until`
getCacheNoExpiry(table, k, t) ==
    IF k \notin DOMAIN table
    THEN [found |-> FALSE, value |-> <<>>, table |-> table]
    ELSE [found |-> TRUE, value |-> table[k].value, table |-> table]

\* getCache(k) at time t: whether a value is returned, the value, and the
\* table afterwards (an expired entry is deleted)
getCache(table, k, t) ==
    IF k \notin DOMAIN table
    THEN [found |-> FALSE, value |-> <<>>, table |-> table]
    ELSE IF t > table[k].until
    THEN [found |-> FALSE, value |-> <<>>, table |-> Without(table, k)]
    ELSE [found |-> TRUE, value |-> table[k].value, table |-> table]


(***************************************************************************)
(* The state of the process                                                *)
(*                                                                         *)
(* One step of the model is one turn of the event loop: the arrival of a   *)
(* request or of an upstream response (or failure), run until every        *)
(* promise of it awaits the network.  Date.now() is `now` throughout a     *)
(* turn; time passes between turns, in steps of Quantum milliseconds.      *)
(***************************************************************************)
VARIABLES
    keySet,   \* process.env.RAPIDAPI_KEY is set
    now,      \* Date.now()
    cache,    \* the Map `cache`: key -> [until, value, by]
    req,      \* the requests, in the order they arrive
    sample,   \* a size text under study, in its parts (SpecSize)
    measured  \* <<>>, or <<sizeToKg(sizeS)>> for the text sizeS of the sample

vars == <<keySet, now, cache, req, sample, measured>>

\* the number of requests a behaviour holds
MaxReq == 2
\* the number of Quantum steps the clock makes
MaxTicks == 2
\* the milliseconds between two readings of the clock
Quantum == 45000

Reqs == 1..MaxReq

\* a request that has not arrived.  calls: every callStoreSearch call the
\* handler has made, in order; out: the array `out` of the batch handler;
\* resp: <<>> until the response is sent, then <<[status, body]>>.
NoReq == [kind |-> "none", store |-> Absent, q |-> Absent, items |-> Absent,
          names |-> <<>>, calls |-> <<>>, out |-> <<>>, resp |-> <<>>]

\* no size text is under study
NoSample == [prefix |-> <<>>, n |-> <<>>, sp1 |-> <<>>, x |-> <<>>, sp2 |-> <<>>,
             amount |-> <<>>, sp3 |-> <<>>, unit |-> <<>>, suffix |-> <<>>]

\* the slip of an ensureKey that never throws
ensureKeyNever == TRUE

\* ensureKey() returns (TRUE) or throws (FALSE)
ensureKey == keySet

\* the slip of taking an empty cached list for a miss
CachedNonEmpty(v) == v # <<>>

\* `if (cached)`: an array is truthy, also when it is empty
CachedTruthy(v) == TRUE

\* a callStoreSearch call.  st: "flight" while its GET is out, "ok" once it
\* returned its list val, "err" once it threw err; hit: val came from the
\* cache; at: when it started; end: when it returned
NewCall(store, query, st, hit, val, err) ==
    [store |-> store, query |-> query, st |-> st, hit |-> hit, val |-> val,
     err |-> err, at |-> now, end |-> now]

\* the slip of a miss that joins the GET another call has out for its key
BeginJoining(table, store, query) ==
    IF ~ensureKey
    THEN [call  |-> NewCall(store, query, "err", FALSE, <<>>, "RAPIDAPI_KEY missing (set in Render env vars)"),
          table |-> table]
    ELSE IF getApiInfo(store) = "null"
    THEN [call  |-> NewCall(store, query, "err", FALSE, <<>>, "store must be coles or woolworths"),
          table |-> table]
    ELSE LET got == getCache(table, CacheKey(store, query, 1, 15), now)
         IN  IF got.found /\ CachedTruthy(got.value)
             THEN [call  |-> NewCall(store, query, "ok", TRUE, got.value, ""),
                   table |-> got.table]
             ELSE IF \E r \in Reqs : \E i \in 1..Len(req[r].calls) :
                        /\ req[r].calls[i].st = "flight"
                        /\ req[r].calls[i].store = store
                        /\ req[r].calls[i].query = query
             THEN [call  |-> NewCall(store, query, "joined", FALSE, <<>>, ""),
                   table |-> got.table]
             ELSE [call  |-> NewCall(store, query, "flight", FALSE, <<>>, ""),
                   table |-> got.table]

\* callStoreSearch(store, query, 1, 15) up to its await, on the table given:
\* the call and the table afterwards
Begin(table, store, query) ==
    IF ~ensureKey
    THEN [call  |-> NewCall(store, query, "err", FALSE, <<>>, "RAPIDAPI_KEY missing (set in Render env vars)"),
          table |-> table]
    ELSE IF getApiInfo(store) = "null"
    THEN [call  |-> NewCall(store, query, "err", FALSE, <<>>, "store must be coles or woolworths"),
          table |-> table]
    ELSE LET got == getCache(table, CacheKey(store, query, 1, 15), now)
         IN  IF got.found /\ CachedTruthy(got.value)
             THEN [call  |-> NewCall(store, query, "ok", TRUE, got.value, ""),
                   table |-> got.table]
             ELSE [call  |-> NewCall(store, query, "flight", FALSE, <<>>, ""),
                   table |-> got.table]

\* res.status(n).json({ error: ... })
ErrorResp(n, msg) == <<[status |-> n, body |-> [error |-> msg]]>>
\* res.json(body)
OkResp(body) == <<[status |-> 200, body |-> body]>>

\* !q
Falsy(param) == ~param.def \/ param.s = <<>>

(***************************************************************************)
(* GET /search                                                             *)
(***************************************************************************)
\* the response of /search once its call is settled, <<>> while it is not
SearchResp(c) ==
    CASE c.st = "err" -> ErrorResp(500, c.err)
      [] c.st = "ok"  -> OkResp(c.val)
      [] OTHER        -> <<>>

Search(r, store, q) ==
    /\ req[r].kind = "none"
    /\ \A p \in 1..(r - 1) : req[p].kind # "none"
    /\ LET me == [NoReq EXCEPT !.kind = "search", !.store = store, !.q = q]
           st == IF store.def THEN store.s ELSE ColesName
       IN  IF Falsy(q)
           THEN /\ req' = [req EXCEPT ![r] = [me EXCEPT !.resp = ErrorResp(400, "Missing ?q=")]]
                /\ cache' = cache
           ELSE LET b == Begin(cache, st, q.s)
                IN  /\ req' = [req EXCEPT ![r] =
                                 [me EXCEPT !.calls = <<b.call>>,
                                            !.resp = SearchResp(b.call)]]
                    /\ cache' = b.table
    /\ UNCHANGED <<keySet, now, sample, measured>>

(***************************************************************************)
(* GET /cheapest                                                           *)
(***************************************************************************)
\* the rejection of Promise.all([a, b]): the error of the call that failed
\* (at the start both fail alike; later, one call fails per turn)
FirstError(a, b) == IF a.st = "err" THEN a.err ELSE b.err

\* the slip of answering from the first list that returns
CheapestRespPartial(q, a, b) ==
    CASE a.st = "ok" \/ b.st = "ok" ->
            OkResp([query          |-> q,
                    cheapestByItem |-> Attributed(ByItem(a.val, b.val)),
                    cheapestByKg   |-> Attributed(ByKg(a.val, b.val))])
      [] a.st = "err" \/ b.st = "err" -> ErrorResp(500, FirstError(a, b))
      [] OTHER -> <<>>

\* the response of /cheapest for the calls a (coles) and b (woolworths):
\* 500 as soon as one has failed, 200 once both returned, <<>> otherwise
CheapestResp(q, a, b) ==
    CASE a.st = "err" \/ b.st = "err" -> ErrorResp(500, FirstError(a, b))
      [] a.st = "ok" /\ b.st = "ok"   ->
            OkResp([query          |-> q,
                    cheapestByItem |-> Attributed(ByItem(a.val, b.val)),
                    cheapestByKg   |-> Attributed(ByKg(a.val, b.val))])
      [] OTHER -> <<>>

Cheapest(r, q) ==
    /\ req[r].kind = "none"
    /\ \A p \in 1..(r - 1) : req[p].kind # "none"
    /\ LET me == [NoReq EXCEPT !.kind = "cheapest", !.q = q]
       IN  IF Falsy(q)
           THEN /\ req' = [req EXCEPT ![r] = [me EXCEPT !.resp = ErrorResp(400, "Missing ?q=")]]
                /\ cache' = cache
           ELSE LET a == Begin(cache, ColesName, q.s)
                    b == Begin(a.table, WoolworthsName, q.s)
                IN  /\ req' = [req EXCEPT ![r] =
                                 [me EXCEPT !.calls = <<a.call, b.call>>,
                                            !.resp = CheapestResp(q.s, a.call, b.call)]]
                    /\ cache' = b.table
    /\ UNCHANGED <<keySet, now, sample, measured>>


(***************************************************************************)
(* GET /bulk-cheapest-perkg                                                *)
(***************************************************************************)
RECURSIVE Split(_)
\* s.split(',')
Split(s) ==
    LET p == IndexIn(",", s)
    IN  IF p = 0 THEN <<s>>
        ELSE <<SubSeq(s, 1, p - 1)>> \o Split(SubSeq(s, p + 1, Len(s)))

RECURSIVE TrimStart(_)
TrimStart(s) == IF Len(s) > 0 /\ IsSpace(s[1]) THEN TrimStart(Tail(s)) ELSE s
RECURSIVE TrimEnd(_)
TrimEnd(s) == IF Len(s) > 0 /\ IsSpace(s[Len(s)])
              THEN TrimEnd(SubSeq(s, 1, Len(s) - 1)) ELSE s
\* String.prototype.trim
Trim(s) == TrimEnd(TrimStart(s))

\* the slip of leaving out .filter(Boolean)
ItemNamesNoFilter(items) ==
    LET parts == Split(IF items.def THEN items.s ELSE <<>>)
    IN  [k \in 1..Len(parts) |-> Trim(parts[k])]

\* the slip of leaving out .map(s => s.trim())
ItemNamesNoTrim(items) ==
    SelectSeq(Split(IF items.def THEN items.s ELSE <<>>), LAMBDA n : n # <<>>)

\* (req.query.items || '').split(',').map(s => s.trim()).filter(Boolean)
ItemNames(items) ==
    LET parts == Split(IF items.def THEN items.s ELSE <<>>)
    IN  SelectSeq([k \in 1..Len(parts) |-> Trim(parts[k])], LAMBDA n : n # <<>>)

\* { name, cheapestPerKg: best ? { store: guessStore(best), ...best } : null }
Entry(name, coles, woolworths) ==
    [name |-> name, cheapestPerKg |-> Attributed(BulkBest(coles, woolworths))]

RECURSIVE BulkLoopHalf(_, _, _, _)
\* the slip of going on to the next item once one of the two lists is there
BulkLoopHalf(table, names, calls, out) ==
    IF Len(out) = Len(names)
    THEN [table |-> table, calls |-> calls, out |-> out,
          resp |-> OkResp([items |-> out])]
    ELSE LET name == names[Len(out) + 1]
             a    == Begin(table, ColesName, name)
             b    == Begin(a.table, WoolworthsName, name)
             cs   == calls \o <<a.call, b.call>>
         IN  IF a.call.st = "err" \/ b.call.st = "err"
             THEN [table |-> b.table, calls |-> cs, out |-> out,
                   resp |-> ErrorResp(500, FirstError(a.call, b.call))]
             ELSE IF a.call.st = "ok" \/ b.call.st = "ok"
             THEN BulkLoopHalf(b.table, names, cs,
                               Append(out, Entry(name, a.call.val, b.call.val)))
             ELSE [table |-> b.table, calls |-> cs, out |-> out, resp |-> <<>>]

RECURSIVE BulkLoop(_, _, _, _)
\* the for loop from item Len(out) + 1 on, run until it awaits a call in
\* flight, throws or ends: the table, the calls made, `out` and the response
BulkLoop(table, names, calls, out) ==
    IF Len(out) = Len(names)
    THEN [table |-> table, calls |-> calls, out |-> out,
          resp |-> OkResp([items |-> out])]
    ELSE LET name == names[Len(out) + 1]
             a    == Begin(table, ColesName, name)
             b    == Begin(a.table, WoolworthsName, name)
             cs   == calls \o <<a.call, b.call>>
         IN  IF a.call.st = "err" \/ b.call.st = "err"
             THEN [table |-> b.table, calls |-> cs, out |-> out,
                   resp |-> ErrorResp(500, FirstError(a.call, b.call))]
             ELSE IF a.call.st = "ok" /\ b.call.st = "ok"
             THEN BulkLoop(b.table, names, cs,
                           Append(out, Entry(name, a.call.val, b.call.val)))
             ELSE [table |-> b.table, calls |-> cs, out |-> out, resp |-> <<>>]

Bulk(r, items) ==
    /\ req[r].kind = "none"
    /\ \A p \in 1..(r - 1) : req[p].kind # "none"
    /\ LET names == ItemNames(items)
           me    == [NoReq EXCEPT !.kind = "bulk", !.items = items, !.names = names]
       IN  IF Len(names) = 0
           THEN /\ req' = [req EXCEPT ![r] =
                             [me EXCEPT !.resp = ErrorResp(400, "Provide ?items=Flour,Sugar,...")]]
                /\ cache' = cache
           ELSE LET l == BulkLoop(cache, names, <<>>, <<>>)
                IN  /\ req' = [req EXCEPT ![r] =
                                 [me EXCEPT !.calls = l.calls, !.out = l.out,
                                            !.resp = l.resp]]
                    /\ cache' = l.table
    /\ UNCHANGED <<keySet, now, sample, measured>>

(***************************************************************************)
(* The upstream GET of a call returns                                      *)
(***************************************************************************)
\* r.data.results ?? []: a body is [has, results]
Results(body) == IF body.has THEN body.results ELSE <<>>

\* the request rq, awaiting, after one of its calls returned: its handler
\* goes on, on the table given
Resume(rq, table) ==
    CASE rq.kind = "search" ->
            [table |-> table, rq |-> [rq EXCEPT !.resp = SearchResp(rq.calls[1])]]
      [] rq.kind = "cheapest" ->
            [table |-> table,
             rq |-> [rq EXCEPT !.resp = CheapestResp(rq.q.s, rq.calls[1], rq.calls[2])]]
      [] OTHER ->
            LET n == Len(rq.calls)
                a == rq.calls[n - 1]
                b == rq.calls[n]
            IN  IF a.st = "ok" /\ b.st = "ok"
                THEN LET l == BulkLoop(table, rq.names, rq.calls,
                                       Append(rq.out, Entry(a.query, a.val, b.val)))
                     IN  [table |-> l.table,
                          rq |-> [rq EXCEPT !.calls = l.calls, !.out = l.out,
                                            !.resp = l.resp]]
                ELSE [table |-> table, rq |-> rq]

\* the call c of request rq returned after storing `out` (table is the cache
\* with it): the handler goes on if it still awaits
Returned(rq, table) ==
    IF rq.resp = <<>> THEN Resume(rq, table) ELSE [table |-> table, rq |-> rq]

\* call i of request r with the list `out` it returns
ReturnedCall(r, i, out) ==
    [req[r] EXCEPT !.calls[i] =
        [req[r].calls[i] EXCEPT !.st = "ok", !.val = out, !.end = now]]

\* putCache(key, out) of call i of request r
Stored(r, i, out) ==
    putCache(cache, CacheKey(req[r].calls[i].store, req[r].calls[i].query, 1, 15),
             out, now, <<r, i>>)

\* the rest of callStoreSearch once the GET returned: `out` is normalized,
\* stored and returned; nx is the request and the table after the turn
Finish(r, nx) ==
    /\ req' = [req EXCEPT ![r] = nx.rq]
    /\ cache' = nx.table

StoreAndReturn(r, i, out) ==
    Finish(r, Returned(ReturnedCall(r, i, out), Stored(r, i, out)))

\* the GET of call i of request r returns `body` within the timeout: the call
\* normalizes it, stores the list and returns it
UpstreamOk(r, i, body) ==
    /\ i \in 1..Len(req[r].calls)
    /\ req[r].calls[i].st = "flight"
    /\ now < req[r].calls[i].at + Timeout
    /\ StoreAndReturn(r, i, NormalizeAll(Results(body)))
    /\ UNCHANGED <<keySet, now, sample, measured>>

\* the slip of a failure that stores the empty list for its key
UpstreamFailStoresEmpty(r, i, why) ==
    /\ i \in 1..Len(req[r].calls)
    /\ req[r].calls[i].st = "flight"
    /\ IF why = "timeout of 12000ms exceeded"
       THEN now >= req[r].calls[i].at + Timeout
       ELSE now < req[r].calls[i].at + Timeout
    /\ LET c  == req[r].calls[i]
           rq == [req[r] EXCEPT !.calls[i] = [c EXCEPT !.st = "err", !.err = why]]
       IN  req' = [req EXCEPT ![r] =
                     IF rq.resp = <<>> THEN [rq EXCEPT !.resp = ErrorResp(500, why)]
                     ELSE rq]
    /\ cache' = putCache(cache, CacheKey(req[r].calls[i].store, req[r].calls[i].query, 1, 15),
                         <<>>, now, <<r, i>>)
    /\ UNCHANGED <<keySet, now, sample, measured>>

\* the slip of a failure that no catch turns into a response
UpstreamFailUncaught(r, i, why) ==
    /\ i \in 1..Len(req[r].calls)
    /\ req[r].calls[i].st = "flight"
    /\ IF why = "timeout of 12000ms exceeded"
       THEN now >= req[r].calls[i].at + Timeout
       ELSE now < req[r].calls[i].at + Timeout
    /\ req' = [req EXCEPT ![r].calls[i] =
                 [req[r].calls[i] EXCEPT !.st = "err", !.err = why]]
    /\ UNCHANGED <<keySet, now, cache, sample, measured>>

\* the slip of a failure that cancels the other GETs of its request
UpstreamFailCancelling(r, i, why) ==
    /\ i \in 1..Len(req[r].calls)
    /\ req[r].calls[i].st = "flight"
    /\ IF why = "timeout of 12000ms exceeded"
       THEN now >= req[r].calls[i].at + Timeout
       ELSE now < req[r].calls[i].at + Timeout
    /\ LET rq == [req[r] EXCEPT !.calls =
                    [j \in 1..Len(req[r].calls) |->
                        IF j = i
                        THEN [req[r].calls[j] EXCEPT !.st = "err", !.err = why]
                        ELSE IF req[r].calls[j].st = "flight"
                        THEN [req[r].calls[j] EXCEPT !.st = "err", !.err = "canceled"]
                        ELSE req[r].calls[j]]]
       IN  req' = [req EXCEPT ![r] =
                     IF rq.resp = <<>> THEN [rq EXCEPT !.resp = ErrorResp(500, why)]
                     ELSE rq]
    /\ UNCHANGED <<keySet, now, cache, sample, measured>>

\* the GET of call i of request r fails: an error before the timeout, or the
\* timeout.  The call throws; the handler, if it still awaits, answers 500.
UpstreamFail(r, i, why) ==
    /\ i \in 1..Len(req[r].calls)
    /\ req[r].calls[i].st = "flight"
    /\ IF why = "timeout of 12000ms exceeded"
       THEN now >= req[r].calls[i].at + Timeout
       ELSE now < req[r].calls[i].at + Timeout
    /\ LET c  == req[r].calls[i]
           rq == [req[r] EXCEPT !.calls[i] = [c EXCEPT !.st = "err", !.err = why]]
       IN  req' = [req EXCEPT ![r] =
                     IF rq.resp = <<>> THEN [rq EXCEPT !.resp = ErrorResp(500, why)]
                     ELSE rq]
    /\ UNCHANGED <<keySet, now, cache, sample, measured>>

\* time passes; a GET that has reached its timeout fails before more passes
Tick ==
    /\ now + Quantum <= MaxTicks * Quantum
    /\ \A r \in Reqs : \A i \in 1..Len(req[r].calls) :
          req[r].calls[i].st = "flight" => now < req[r].calls[i].at + Timeout
    /\ now' = now + Quantum
    /\ UNCHANGED <<keySet, cache, req, sample, measured>>

(***************************************************************************)
(* The environment: the parameters of requests and the upstream bodies     *)
(***************************************************************************)
\* a raw result that names its fields productName, size, price, productUrl, productId
RawRecord(name, size, price, url, id) ==
    [productName |-> name, productSize |-> <<>>, packageSize |-> <<>>,
     size |-> size, currentPrice |-> NullRaw, price |-> price,
     productUrl |-> url, productId |-> id]
\* a raw result that names its size packageSize and its price currentPrice
RawRecord2(name, size, price, url, id) ==
    [productName |-> name, productSize |-> <<>>, packageSize |-> size,
     size |-> <<>>, currentPrice |-> price, price |-> NullRaw,
     productUrl |-> url, productId |-> id]

Body(results) == [has |-> TRUE, results |-> results]
NoResults     == [has |-> FALSE, results |-> <<>>]

ColesUrl == <<"c","o","l","e","s",".","a","u">>
WoolUrl  == <<"W","o","o","l","w","o","r","t","h","s">>

\* price "$4.50", size "500g": 9.00 per kg
RecA == RawRecord(<<"A">>, <<"5","0","0","g">>, StrRaw(<<"$","4",".","5","0">>),
                  ColesUrl, <<"1">>)
\* price 4.5, size "1kg": the price of RecA, 4.50 per kg
RecB == RawRecord2(<<"B">>, <<"1","k","g">>, NumRaw(4500), WoolUrl, <<"2">>)
\* price "9", size "2 x 500g": 9.00 per kg, as RecA
RecC == RawRecord(<<"C">>, <<"2"," ","x"," ","5","0","0","g">>, StrRaw(<<"9">>),
                  ColesUrl, <<"3">>)
\* no price, size "1kg"
RecD == RawRecord(<<"D">>, <<"1","k","g">>, NullRaw, WoolUrl, <<"4">>)
\* price "2", size "300g": 6.666... per kg
RecE == RawRecord(<<"E">>, <<"3","0","0","g">>, StrRaw(<<"2">>), <<>>, <<"5">>)
\* price "1", size "each": no kilograms
RecF == RawRecord(<<"F">>, <<"e","a","c","h">>, StrRaw(<<"1">>), ColesUrl, <<"6">>)
\* price 0, size "1kg"
RecG == RawRecord(<<"G">>, <<"1","k","g">>, NumRaw(0), WoolUrl, <<"7">>)

RawRecords == {RecA, RecB, RecC, RecD, RecE, RecF, RecG}

\* the longest list of results an upstream body holds
MaxList == 2
\* the longest ?items= text
MaxItemsLen == 3

\* the sequences of length at most n over the set S
SeqsUpTo(S, n) == UNION {[1..k -> S] : k \in 0..n}

\* ?store=
StoreParams == {Absent, Text(<<"C","o","l","e","s">>), Text(<<"a","l","d","i">>)}
\* ?q=
QParams == {Absent, Text(<<"a">>)}
\* ?items=
ItemsParams == {Absent, Text(<<" ", ",">>), Text(<<"a", ",", " ", "a">>)}
\* ?items=, every text of commas, blanks and two letters
WideItems == {Absent} \cup {Text(t) : t \in SeqsUpTo({"a", "b", ",", " "}, MaxItemsLen)}
\* the bodies an upstream GET returns
Bodies == {NoResults, Body(<<RecA>>)}
\* the bodies an upstream GET returns, every list of raw results
WideBodies == {NoResults} \cup {Body(l) : l \in SeqsUpTo(RawRecords, MaxList)}
\* the failures of an upstream GET
Failures == {"Request failed with status code 500", "timeout of 12000ms exceeded"}

Init ==
    /\ keySet \in BOOLEAN
    /\ now = 0
    /\ cache = [k \in {} |-> 0]
    /\ req = [r \in Reqs |-> NoReq]
    /\ sample = NoSample
    /\ measured = <<>>

(***************************************************************************)
(* Spec: requests that overlap, with few parameters and bodies             *)
(***************************************************************************)
Next ==
    \/ \E r \in Reqs, store \in StoreParams, q \in QParams : Search(r, store, q)
    \/ \E r \in Reqs, q \in QParams : Cheapest(r, q)
    \/ \E r \in Reqs, items \in ItemsParams : Bulk(r, items)
    \/ \E r \in Reqs : \E i \in 1..Len(req[r].calls), body \in Bodies :
          UpstreamOk(r, i, body)
    \/ \E r \in Reqs : \E i \in 1..Len(req[r].calls), why \in Failures :
          UpstreamFail(r, i, why)
    \/ Tick

Spec == Init /\ [][Next]_vars

\* no request awaits and no GET is out
Quiet ==
    \A r \in Reqs :
        /\ req[r].kind # "none" => req[r].resp # <<>>
        /\ \A i \in 1..Len(req[r].calls) : req[r].calls[i].st # "flight"

(***************************************************************************)
(* SpecBatch: requests one after the other within one reading of the      *)
(* clock; the first is a /search or a /cheapest, the later ones take every *)
(* ?items= text                                                            *)
(***************************************************************************)
NextBatch ==
    \/ \E r \in Reqs, store \in StoreParams, q \in QParams :
          Quiet /\ Search(r, store, q)
    \/ \E r \in Reqs, q \in QParams : Quiet /\ Cheapest(r, q)
    \/ \E r \in Reqs \ {1}, items \in WideItems : Quiet /\ Bulk(r, items)
    \/ \E r \in Reqs : \E i \in 1..Len(req[r].calls), body \in Bodies :
          UpstreamOk(r, i, body)
    \/ \E r \in Reqs : \E i \in 1..Len(req[r].calls) :
          UpstreamFail(r, i, "Request failed with status code 500")

SpecBatch == Init /\ [][NextBatch]_vars

(***************************************************************************)
(* SpecData: requests one after the other for the same product, the        *)
(* upstream answering every GET with any list of raw results               *)
(***************************************************************************)
NextData ==
    \/ \E r \in Reqs : Quiet /\ Cheapest(r, Text(<<"a">>))
    \/ \E r \in Reqs : Quiet /\ Bulk(r, Text(<<"a">>))
    \/ \E r \in Reqs : \E i \in 1..Len(req[r].calls), body \in WideBodies :
          UpstreamOk(r, i, body)

InitData ==
    /\ keySet = TRUE
    /\ now = 0
    /\ cache = [k \in {} |-> 0]
    /\ req = [r \in Reqs |-> NoReq]
    /\ sample = NoSample
    /\ measured = <<>>

SpecData == InitData /\ [][NextData]_vars

(***************************************************************************)
(* SpecSize: sizeToKg on size texts put together from parts: a prefix, the *)
(* digits of N, blanks, an x, blanks, an amount, blanks, a unit, a suffix. *)
(* A part is [t, v]: its text and what it stands for.                      *)
(***************************************************************************)
\* what comes before N (it does not end in a digit): nothing, a single
\* size, a letter, the start of another pack, a number with a point
SizePrefixes == {<<>>, <<"1","k","g"," ">>, <<"a">>, <<"3"," ","x"," ">>, <<"1",".">>}
\* N and its value
SizeCounts == {[t |-> <<"6">>, v |-> 6], [t |-> <<"1","2">>, v |-> 12],
               [t |-> <<"0">>, v |-> 0]}
\* the blanks around x and before the unit
SizeBlanks == {<<>>, <<" ">>}
\* the x
SizeTimes == {<<"x">>, <<"X">>}
\* the amount and its value in thousandths
SizeAmounts == {[t |-> <<"5","0">>, v |-> 50000], [t |-> <<"1",".","5">>, v |-> 1500],
                [t |-> <<".","5">>, v |-> 500], [t |-> <<"5",".">>, v |-> 5000]}
\* the unit and the millionths of a kilogram in a thousandth of it
SizeUnits == {[t |-> <<"g">>, v |-> 1], [t |-> <<"k","g">>, v |-> 1000],
              [t |-> <<"m","l">>, v |-> 1], [t |-> <<"l">>, v |-> 1000],
              [t |-> <<"K","G">>, v |-> 1000], [t |-> <<"M","l">>, v |-> 1],
              [t |-> <<"L">>, v |-> 1000]}
\* what comes after the unit (it does not start with a letter, a digit or
\* an underscore): nothing, a blank, another pack, a point, a bracket
SizeSuffixes == {<<>>, <<" ">>, <<" ","4","x","1","k","g">>, <<".">>, <<")">>}

Samples ==
    [prefix : SizePrefixes, n : SizeCounts, sp1 : SizeBlanks, x : SizeTimes,
     sp2 : SizeBlanks, amount : SizeAmounts, sp3 : SizeBlanks, unit : SizeUnits,
     suffix : SizeSuffixes]

\* the size text of a sample
SizeText(p) ==
    p.prefix \o p.n.t \o p.sp1 \o p.x \o p.sp2 \o p.amount.t \o p.sp3 \o p.unit.t
      \o p.suffix

\* const kg = sizeToKg(sizeS)
Measure ==
    /\ measured = <<>>
    /\ measured' = <<sizeToKg(SizeText(sample))>>
    /\ UNCHANGED <<keySet, now, cache, req, sample>>

InitSize ==
    /\ keySet = TRUE
    /\ now = 0
    /\ cache = [k \in {} |-> 0]
    /\ req = [r \in Reqs |-> NoReq]
    /\ sample \in Samples
    /\ measured = <<>>

NextSize == Measure

SpecSize == InitSize /\ [][NextSize]_vars

(***************************************************************************)
(* Properties                                                              *)
(***************************************************************************)
\* the cache key of a call
KeyOf(c) == CacheKey(c.store, c.query, 1, 15)

\* the calls of request r that start in the step
Started(r) == (Len(req[r].calls) + 1)..Len(req'[r].calls)

\* call i of request r makes its putCache in the step
PutsNow(r, i) ==
    /\ i \in 1..Len(req[r].calls)
    /\ req[r].calls[i].st = "flight"
    /\ req'[r].calls[i].st = "ok"

\* C1 as stated: whenever a call c2 starts after a call c1 with the same
\* store, query, page and size has stored its list, and no later than TTL
\* after that, c2 returns the list c1 stored, from the cache, with no GET.
C1_Original ==
    [][\A r1 \in Reqs, r2 \in Reqs :
         \A i1 \in 1..Len(req'[r1].calls), i2 \in Started(r2) :
            LET c1 == req'[r1].calls[i1]
                c2 == req'[r2].calls[i2]
            IN  (/\ <<r1, i1>> # <<r2, i2>>
                 /\ c1.st = "ok" /\ ~c1.hit
                 /\ KeyOf(c1) = KeyOf(c2)
                 /\ now <= c1.end + TTL)
                => (c2.st = "ok" /\ c2.hit /\ c2.val = c1.val)]_vars

\* C1, amended: such a call c2 is always served from the cache with no GET,
\* and it returns the list c1 stored when no other call has stored a list
\* under that key since c1 did; also when the list is empty.
C1_CacheHitWithinTTL ==
    [][\A r1 \in Reqs, r2 \in Reqs :
         \A i1 \in 1..Len(req'[r1].calls), i2 \in Started(r2) :
            LET c1 == req'[r1].calls[i1]
                c2 == req'[r2].calls[i2]
            IN  (/\ <<r1, i1>> # <<r2, i2>>
                 /\ c1.st = "ok" /\ ~c1.hit
                 /\ KeyOf(c1) = KeyOf(c2)
                 /\ now <= c1.end + TTL)
                => (/\ c2.st = "ok" /\ c2.hit
                    /\ cache'[KeyOf(c1)].by = <<r1, i1>> => c2.val = c1.val)]_vars

\* a call that stored the empty list, and a later call with its key, started
\* exactly TTL after the store, that got the empty list from the cache
C1_Witness ==
    \E r1 \in Reqs, r2 \in Reqs :
        \E i1 \in 1..Len(req[r1].calls), i2 \in 1..Len(req[r2].calls) :
            /\ req[r1].calls[i1].st = "ok" /\ ~req[r1].calls[i1].hit
            /\ req[r1].calls[i1].val = <<>>
            /\ KeyOf(req[r1].calls[i1]) = KeyOf(req[r2].calls[i2])
            /\ req[r2].calls[i2].hit
            /\ req[r2].calls[i2].val = <<>>
            /\ req[r2].calls[i2].at = req[r1].calls[i1].end + TTL

\* C2: a lookup never returns a value whose expiry time is earlier than the
\* current time; a lookup of an expired entry returns nothing and deletes
\* the entry; a key is added to the table only by a putCache for that key.
C2_ExpiredNeverServed ==
    [][/\ \A r \in Reqs : \A i \in Started(r) :
            LET c == req'[r].calls[i]
                k == KeyOf(c)
            IN  /\ c.hit => /\ k \in DOMAIN cache'
                            /\ cache'[k].until >= now
                            /\ cache'[k].value = c.val
                /\ (/\ c.st # "err"
                    /\ k \in DOMAIN cache
                    /\ now > cache[k].until
                    /\ ~\E r3 \in Reqs : \E i3 \in 1..Len(req[r3].calls) :
                          PutsNow(r3, i3) /\ KeyOf(req[r3].calls[i3]) = k)
                   => (~c.hit /\ c.st = "flight" /\ k \notin DOMAIN cache')
       /\ \A k \in DOMAIN cache' \ DOMAIN cache :
            \E r \in Reqs : \E i \in 1..Len(req[r].calls) :
                PutsNow(r, i) /\ KeyOf(req[r].calls[i]) = k]_vars

\* a call that looked its key up after the entry a former call stored had
\* expired: its GET is out and the key is not in the table
C2_Witness ==
    \E r1 \in Reqs, r2 \in Reqs :
        \E i1 \in 1..Len(req[r1].calls), i2 \in 1..Len(req[r2].calls) :
            /\ req[r1].calls[i1].st = "ok" /\ ~req[r1].calls[i1].hit
            /\ KeyOf(req[r1].calls[i1]) = KeyOf(req[r2].calls[i2])
            /\ req[r2].calls[i2].st = "flight"
            /\ req[r2].calls[i2].at > req[r1].calls[i1].end + TTL
            /\ KeyOf(req[r2].calls[i2]) \notin DOMAIN cache

\* C3 as stated: in a batch, an upstream failure for one item leaves the
\* request a success whose report has an entry for every item, every item
\* having had its two provider calls made.
C3_ItemFailureIsolated ==
    \A r \in Reqs :
        (/\ req[r].kind = "bulk"
         /\ req[r].resp # <<>>
         /\ \E i \in 1..Len(req[r].calls) :
               req[r].calls[i].st = "err" /\ req[r].calls[i].err \in Failures)
        => (/\ req[r].resp[1].status = 200
            /\ Len(req[r].calls) = 2 * Len(req[r].names)
            /\ Len(req[r].resp[1].body.items) = Len(req[r].names))

\* C4 as stated: once the response of a request is sent, none of the
\* provider calls the request started is still in flight.
C4_ResponseAfterAllCalls ==
    \A r \in Reqs :
        req[r].resp # <<>> =>
            \A i \in 1..Len(req[r].calls) : req[r].calls[i].st # "flight"

\* C5: with no credential configured, every callStoreSearch call has failed
\* with the configuration error, none has a GET out or a value from the
\* cache, the cache is empty, and every request that made a call is answered
\* 500 with an error field.
C5_NoKeyFailsFast ==
    ~keySet =>
        /\ cache = [k \in {} |-> 0]
        /\ \A r \in Reqs :
             /\ \A i \in 1..Len(req[r].calls) :
                   /\ req[r].calls[i].st = "err"
                   /\ req[r].calls[i].err = "RAPIDAPI_KEY missing (set in Render env vars)"
                   /\ ~req[r].calls[i].hit
             /\ Len(req[r].calls) > 0 =>
                   /\ req[r].resp # <<>>
                   /\ req[r].resp[1].status = 500
                   /\ "error" \in DOMAIN req[r].resp[1].body

\* no credential: a /search for a store that is no provider and a batch,
\* both answered 500 for the missing credential
C5_Witness ==
    /\ ~keySet
    /\ \E r1 \in Reqs, r2 \in Reqs :
        /\ req[r1].kind = "search"
        /\ req[r1].store = Text(<<"a","l","d","i">>)
        /\ Len(req[r1].calls) = 1
        /\ req[r1].resp = ErrorResp(500, "RAPIDAPI_KEY missing (set in Render env vars)")
        /\ req[r2].kind = "bulk"
        /\ Len(req[r2].calls) = 2
        /\ req[r2].resp = ErrorResp(500, "RAPIDAPI_KEY missing (set in Render env vars)")

\* a request without q, or with an ?items= text of nothing but commas and
\* blanks
Invalid(rq) ==
    \/ rq.kind \in {"search", "cheapest"} /\ (~rq.q.def \/ rq.q.s = <<>>)
    \/ /\ rq.kind = "bulk"
       /\ \A i \in 1..Len(rq.items.s) : rq.items.s[i] \in {",", " "}

\* C6: a /search or /cheapest without q, and a batch whose item list is
\* empty after trimming and dropping blanks, is answered 400 with an error
\* field on arrival, makes no provider call, and leaves the cache unchanged.
C6_InvalidRequest400 ==
    [][\A r \in Reqs :
         (req'[r].kind # "none" /\ Invalid(req'[r])) =>
            /\ req'[r].resp # <<>>
            /\ req'[r].resp[1].status = 400
            /\ "error" \in DOMAIN req'[r].resp[1].body
            /\ req'[r].calls = <<>>
            /\ req[r].kind = "none" => cache' = cache]_vars

\* a batch of nothing but a blank and a comma, and a /cheapest without q,
\* both answered 400 while the cache holds an entry
C6_Witness ==
    /\ DOMAIN cache # {}
    /\ \E r \in Reqs :
         /\ req[r].kind = "bulk"
         /\ req[r].items = Text(<<" ", ",", " ">>)
         /\ req[r].resp = ErrorResp(400, "Provide ?items=Flour,Sugar,...")

\* the non-blank characters of a text, from its first to its last
Core(t) ==
    LET nb == {i \in 1..Len(t) : t[i] # " "}
    IN  IF nb = {} THEN <<>>
        ELSE SubSeq(t, CHOOSE i \in nb : \A j \in nb : i <= j,
                       CHOOSE i \in nb : \A j \in nb : i >= j)

RECURSIVE Scan(_, _, _)
\* the item names of the text s, read character by character: cur is the
\* item being read and acc the names read so far
Scan(s, cur, acc) ==
    LET flush == IF Core(cur) = <<>> THEN acc ELSE Append(acc, Core(cur))
    IN  IF Len(s) = 0 THEN flush
        ELSE IF Head(s) = "," THEN Scan(Tail(s), <<>>, flush)
        ELSE Scan(Tail(s), Append(cur, Head(s)), acc)

\* C7: the report of a successful batch has one entry per non-blank item
\* name of the input, in the input's order, duplicates kept, each with the
\* trimmed name.
C7_ReportInInputOrder ==
    \A r \in Reqs :
        (req[r].kind = "bulk" /\ req[r].resp # <<>> /\ req[r].resp[1].status = 200)
        => [k \in 1..Len(req[r].resp[1].body.items) |->
                req[r].resp[1].body.items[k].name]
           = Scan(req[r].items.s, <<>>, <<>>)

\* a batch for "b,a" answered with the entries b, a, the calls for a served
\* from the cache and the calls for b not
C7_Witness ==
    \E r \in Reqs :
        /\ req[r].kind = "bulk"
        /\ req[r].items = Text(<<"b", ",", "a">>)
        /\ req[r].resp # <<>>
        /\ req[r].resp[1].status = 200
        /\ Len(req[r].resp[1].body.items) = 2
        /\ req[r].resp[1].body.items[1].name = <<"b">>
        /\ req[r].resp[1].body.items[2].name = <<"a">>
        /\ ~req[r].calls[1].hit
        /\ req[r].calls[3].hit

\* the record of a winner, <<>> for null
RecOf(w) == IF w = <<>> THEN <<>> ELSE <<w[1].rec>>

\* the request r is answered 200
Answered200(r) == req[r].resp # <<>> /\ req[r].resp[1].status = 200

\* the earliest record of the list m, among those at the positions P, whose
\* field f is least; <<>> when P is empty
EarliestLeast(m, P, f) ==
    IF P = {} THEN <<>>
    ELSE <<m[CHOOSE i \in P : \A j \in P :
                \/ m[i][f].v < m[j][f].v
                \/ m[i][f].v = m[j][f].v /\ i <= j]>>

\* the positions of the records of m with a price
WithPrice(m) == {i \in 1..Len(m) : m[i].price # Null}
\* the positions of the records of m with a price and a price per kg
WithPerKg(m) == {i \in 1..Len(m) : m[i].price # Null /\ m[i].pricePerKg # Null}

\* C8: cheapestByItem of /cheapest is the earliest record of least price
\* among the records with a price of the Coles list followed by the
\* Woolworths list, and null exactly when no record has a price.
C8_CheapestByItem ==
    \A r \in Reqs :
        (req[r].kind = "cheapest" /\ Answered200(r)) =>
            LET m == req[r].calls[1].val \o req[r].calls[2].val
            IN  /\ RecOf(req[r].resp[1].body.cheapestByItem)
                      = EarliestLeast(m, WithPrice(m), "price")
                /\ (req[r].resp[1].body.cheapestByItem = <<>>) <=> (WithPrice(m) = {})

\* a /cheapest whose winner by price is a Coles record that a Woolworths
\* record equals in price
C8_Witness ==
    \E r \in Reqs :
        /\ req[r].kind = "cheapest" /\ Answered200(r)
        /\ req[r].resp[1].body.cheapestByItem # <<>>
        /\ \E i \in 1..Len(req[r].calls[1].val), j \in 1..Len(req[r].calls[2].val) :
              /\ req[r].resp[1].body.cheapestByItem[1].rec = req[r].calls[1].val[i]
              /\ req[r].calls[2].val[j].price = req[r].calls[1].val[i].price
              /\ req[r].calls[2].val[j].id # req[r].calls[1].val[i].id

\* C9: the winner by unit price, of /cheapest and of every batch item, is
\* the earliest record of least pricePerKg among the records with a price
\* and a pricePerKg of the Coles list followed by the Woolworths list, and
\* null exactly when there is none; so both handlers pick the same record
\* for the same lists, whatever the winner by price.
C9_CheapestPerKg ==
    \A r \in Reqs :
        /\ (req[r].kind = "cheapest" /\ Answered200(r)) =>
              LET m == req[r].calls[1].val \o req[r].calls[2].val
              IN  /\ RecOf(req[r].resp[1].body.cheapestByKg)
                        = EarliestLeast(m, WithPerKg(m), "pricePerKg")
                  /\ (req[r].resp[1].body.cheapestByKg = <<>>) <=> (WithPerKg(m) = {})
        /\ (req[r].kind = "bulk" /\ Answered200(r)) =>
              \A k \in 1..Len(req[r].resp[1].body.items) :
                  LET m == req[r].calls[2 * k - 1].val \o req[r].calls[2 * k].val
                  IN  /\ RecOf(req[r].resp[1].body.items[k].cheapestPerKg)
                            = EarliestLeast(m, WithPerKg(m), "pricePerKg")
                      /\ (req[r].resp[1].body.items[k].cheapestPerKg = <<>>)
                            <=> (WithPerKg(m) = {})

\* a /cheapest and a batch on the same two lists with the same winner per
\* kg, which a later record equals per kg and which is not the winner by
\* price
C9_Witness ==
    \E r1 \in Reqs, r2 \in Reqs :
        /\ req[r1].kind = "cheapest" /\ Answered200(r1)
        /\ req[r2].kind = "bulk" /\ Answered200(r2)
        /\ req[r1].calls[1].val = req[r2].calls[1].val
        /\ req[r1].calls[2].val = req[r2].calls[2].val
        /\ req[r1].resp[1].body.cheapestByKg # <<>>
        /\ req[r2].resp[1].body.items[1].cheapestPerKg = req[r1].resp[1].body.cheapestByKg
        /\ req[r1].resp[1].body.cheapestByItem # req[r1].resp[1].body.cheapestByKg
        /\ \E j \in 1..Len(req[r1].calls[2].val) :
              /\ req[r1].calls[2].val[j].pricePerKg
                    = req[r1].resp[1].body.cheapestByKg[1].rec.pricePerKg
              /\ req[r1].calls[2].val[j].id # req[r1].resp[1].body.cheapestByKg[1].rec.id

\* the lists held in the cache and the lists the calls returned
AllLists ==
    {cache[k].value : k \in DOMAIN cache}
      \cup UNION {{req[r].calls[i].val : i \in 1..Len(req[r].calls)} : r \in Reqs}

\* p.pricePerKg is p.price / kg to the nearest cent, kg the kilograms
\* (millionths) of the size text
NearestCent(p, kg) ==
    LET cents == p.pricePerKg.v \div 10
        d     == cents * kg - 100000 * p.price.v
    IN  /\ p.pricePerKg.v = 10 * cents
        /\ 2 * (IF d >= 0 THEN d ELSE 0 - d) <= kg

\* C10: in every returned list and every cache entry, a record has a
\* pricePerKg only if it has a price and its size text parses to kilograms;
\* the pricePerKg is then the price divided by the kilograms, rounded to 2
\* decimal places; a record without price has no pricePerKg.
C10_PerKgConsistent ==
    \A l \in AllLists : \A n \in 1..Len(l) :
        /\ l[n].price = Null => l[n].pricePerKg = Null
        /\ l[n].pricePerKg # Null =>
              /\ l[n].price # Null
              /\ IsNum(sizeToKg(l[n].size))
              /\ sizeToKg(l[n].size).v > 0
              /\ NearestCent(l[n], sizeToKg(l[n].size).v)

\* a cache entry with a record of price 2 and size 300g at 6.67 per kg, and
\* one with a record without price or pricePerKg
C10_Witness ==
    /\ \E k \in DOMAIN cache : \E n \in 1..Len(cache[k].value) :
          /\ cache[k].value[n].price = Num(2000)
          /\ cache[k].value[n].size = <<"3","0","0","g">>
          /\ cache[k].value[n].pricePerKg = Num(6670)
    /\ \E k \in DOMAIN cache : \E n \in 1..Len(cache[k].value) :
          /\ cache[k].value[n].price = Null
          /\ cache[k].value[n].pricePerKg = Null

\* C11 as stated: in every list a call returned or stored, a record's price
\* is null or greater than zero, and its pricePerKg is null or greater than
\* zero.
C11_PriceNullOrPositive ==
    \A l \in AllLists : \A n \in 1..Len(l) :
        /\ l[n].price = Null \/ l[n].price.v > 0
        /\ l[n].pricePerKg = Null \/ l[n].pricePerKg.v > 0

\* C12: a /cheapest request one of whose two provider calls has failed is
\* answered 500 with an error field, and a /cheapest request is answered 200
\* only when both its calls returned their lists.
C12_CheapestAllOrNothing ==
    \A r \in Reqs :
        req[r].kind = "cheapest" =>
            /\ (\E i \in 1..Len(req[r].calls) : req[r].calls[i].st = "err") =>
                  /\ req[r].resp # <<>>
                  /\ req[r].resp[1].status = 500
                  /\ "error" \in DOMAIN req[r].resp[1].body
            /\ Answered200(r) =>
                  /\ Len(req[r].calls) = 2
                  /\ req[r].calls[1].st = "ok"
                  /\ req[r].calls[2].st = "ok"

\* a /cheapest whose Coles GET failed and whose Woolworths GET returned a
\* record, answered 500
C12_Witness ==
    \E r \in Reqs :
        /\ req[r].kind = "cheapest"
        /\ Len(req[r].calls) = 2
        /\ req[r].calls[1].st = "err"
        /\ req[r].calls[1].err \in Failures
        /\ req[r].calls[2].st = "ok"
        /\ req[r].calls[2].val # <<>>
        /\ req[r].resp = ErrorResp(500, req[r].calls[1].err)

\* the other call of the pair of call i (a /cheapest or one batch item)
Sibling(i) == IF i % 2 = 1 THEN i + 1 ELSE i - 1

\* C13: the step in which a call fails or times out changes no other call of
\* its request: a sibling in flight stays in flight; and when a call whose
\* sibling has failed gets its list, it stores the list under its key, for
\* TTL from then.
C13_SiblingUnaffected ==
    [][\A r \in Reqs : \A i \in 1..Len(req[r].calls) :
         /\ (req[r].calls[i].st = "flight" /\ req'[r].calls[i].st = "err") =>
               /\ Len(req'[r].calls) = Len(req[r].calls)
               /\ \A j \in 1..Len(req[r].calls) :
                     j # i => req'[r].calls[j] = req[r].calls[j]
         /\ (/\ req[r].kind \in {"cheapest", "bulk"}
             /\ PutsNow(r, i)
             /\ req[r].calls[Sibling(i)].st = "err") =>
               /\ KeyOf(req[r].calls[i]) \in DOMAIN cache'
               /\ cache'[KeyOf(req[r].calls[i])].value = req'[r].calls[i].val
               /\ cache'[KeyOf(req[r].calls[i])].until = now + TTL
               /\ cache'[KeyOf(req[r].calls[i])].by = <<r, i>>]_vars

\* a request answered 500 for the failed GET of one call while the GET of
\* the sibling is still out
C13_Witness ==
    \E r \in Reqs : \E i \in 1..Len(req[r].calls) :
        /\ req[r].kind \in {"cheapest", "bulk"}
        /\ req[r].calls[i].st = "err"
        /\ req[r].calls[i].err \in Failures
        /\ req[r].calls[Sibling(i)].st = "flight"
        /\ req[r].resp = ErrorResp(500, req[r].calls[i].err)

\* the key k has an entry in the table that has not expired
Live(table, k) == k \in DOMAIN table /\ now <= table[k].until

\* C14: a call that starts while another call with the same key has its GET
\* out, and finds no live entry under the key, issues its own GET: it does
\* not wait for the other call's result.  So two GETs for one key are out at
\* the same time.
C14_NoDeduplication ==
    [][\A r1 \in Reqs, r2 \in Reqs :
         \A i1 \in 1..Len(req'[r1].calls), i2 \in Started(r2) :
            (/\ <<r1, i1>> # <<r2, i2>>
             /\ req'[r1].calls[i1].st = "flight"
             /\ KeyOf(req'[r1].calls[i1]) = KeyOf(req'[r2].calls[i2])
             /\ ~Live(cache', KeyOf(req'[r2].calls[i2])))
            => (/\ req'[r2].calls[i2].st = "flight"
                /\ ~req'[r2].calls[i2].hit)]_vars

\* two calls of different requests with the same key, started at the same
\* reading of the clock, both with their GET out
C14_Witness ==
    \E r1 \in Reqs, r2 \in Reqs :
        \E i1 \in 1..Len(req[r1].calls), i2 \in 1..Len(req[r2].calls) :
            /\ r1 # r2
            /\ req[r1].calls[i1].st = "flight"
            /\ req[r2].calls[i2].st = "flight"
            /\ KeyOf(req[r1].calls[i1]) = KeyOf(req[r2].calls[i2])
            /\ req[r1].calls[i1].at = req[r2].calls[i2].at

\* the calls that have stored a list, as (request, index)
Storers ==
    {p \in Reqs \X (1..(2 * MaxItemsLen)) :
        /\ p[2] \in 1..Len(req[p[1]].calls)
        /\ req[p[1]].calls[p[2]].st = "ok"
        /\ ~req[p[1]].calls[p[2]].hit}

\* C15 as stated: the table holds no entry older than one TTL, and at most
\* as many entries as distinct keys were stored within the last TTL.
C15_Original ==
    /\ \A k \in DOMAIN cache : now <= cache[k].until
    /\ Cardinality(DOMAIN cache)
          <= Cardinality({KeyOf(req[p[1]].calls[p[2]]) :
                            p \in {s \in Storers :
                                     now <= req[s[1]].calls[s[2]].end + TTL}})

\* C15, amended: the table holds at most as many entries as distinct keys
\* were ever stored, one per key; each entry is the list of the call that
\* last stored under its key and runs out TTL after that store; an entry
\* older than one TTL may remain in the table.
C15_EntriesBoundedByKeys ==
    /\ \A k \in DOMAIN cache :
          /\ cache[k].by \in Storers
          /\ KeyOf(req[cache[k].by[1]].calls[cache[k].by[2]]) = k
          /\ cache[k].value = req[cache[k].by[1]].calls[cache[k].by[2]].val
          /\ cache[k].until = req[cache[k].by[1]].calls[cache[k].by[2]].end + TTL
    /\ Cardinality(DOMAIN cache)
          <= Cardinality({KeyOf(req[p[1]].calls[p[2]]) : p \in Storers})

\* an entry that ran out a TTL ago and is still in the table, beside the
\* entry of another key
C15_Witness ==
    /\ \E k \in DOMAIN cache : now >= cache[k].until + TTL
    /\ Cardinality(DOMAIN cache) >= 2

\* the request rq has arrived and none of its calls has its GET out
Settled(rq) ==
    /\ rq.kind # "none"
    /\ \A i \in 1..Len(rq.calls) : rq.calls[i].st # "flight"

\* C16: a response, once sent, is never replaced by another; a request none
\* of whose calls is still in flight has its response, of status 200, 400
\* or 500, the latter two with a body of the one field error; this also
\* after a second call of the request failed.
C16_ExactlyOneResponse ==
    [][\A r \in Reqs :
         /\ req[r].resp # <<>> => req'[r].resp = req[r].resp
         /\ Settled(req'[r]) =>
               /\ Len(req'[r].resp) = 1
               /\ req'[r].resp[1].status \in {200, 400, 500}
               /\ req'[r].resp[1].status \in {400, 500} =>
                     DOMAIN req'[r].resp[1].body = {"error"}]_vars

\* a request whose two calls both failed, the second by its timeout after
\* the first was answered 500
C16_Witness ==
    \E r \in Reqs :
        /\ Len(req[r].calls) = 2
        /\ req[r].calls[1].st = "err"
        /\ req[r].calls[2].st = "err"
        /\ req[r].calls[1].err = "Request failed with status code 500"
        /\ req[r].calls[2].err = "timeout of 12000ms exceeded"
        /\ req[r].resp = ErrorResp(500, "Request failed with status code 500")

\* C17: for a size text with a multi-pack pattern N x amount unit (any
\* letter case, blanks allowed around x and before the unit, the unit ending
\* a word), sizeToKg is N times the kilograms of the amount, g and ml being
\* a thousandth of kg and l; also when a single amount and unit stands
\* before the pattern or another pack after it.
C17_MultiPackKg ==
    measured # <<>> => measured[1] = Num(sample.n.v * sample.amount.v * sample.unit.v)

\* "1kg 6 x 50g" measured as 0.3 kg
C17_Witness ==
    /\ SizeText(sample) = <<"1","k","g"," ","6"," ","x"," ","5","0","g">>
    /\ measured = <<Num(300000)>>

\* C18 as stated: a call that starts after a call for the same provider (the
\* store names matched without regard to case), query, page and size has
\* stored its list, and no later than TTL after that, is served from the
\* cache with no GET.
C18_SameProviderSameEntry ==
    [][\A r1 \in Reqs, r2 \in Reqs :
         \A i1 \in 1..Len(req'[r1].calls), i2 \in Started(r2) :
            LET c1 == req'[r1].calls[i1]
                c2 == req'[r2].calls[i2]
            IN  (/\ <<r1, i1>> # <<r2, i2>>
                 /\ c1.st = "ok" /\ ~c1.hit
                 /\ getApiInfo(c1.store) # "null"
                 /\ getApiInfo(c1.store) = getApiInfo(c2.store)
                 /\ c1.query = c2.query
                 /\ now <= c1.end + TTL)
                => (c2.st = "ok" /\ c2.hit)]_vars

\* the calls that start in the step and pass ensureKey and getApiInfo
Lookups ==
    {p \in Reqs \X (1..(2 * MaxItemsLen)) :
        /\ p[2] \in Started(p[1])
        /\ ~(req'[p[1]].calls[p[2]].st = "err")}

\* C19: an entry is added or replaced only by a call that gets its list in
\* the step, under its own key; the step in which the GET of a call fails or
\* times out leaves the table as it is; a step whose calls are all rejected
\* for the credential or the store leaves it too; and an entry leaves the
\* table only when it has expired and a call that goes on to its GET, or to
\* a later entry of the same key, looks its key up.
C19_FailedCallStoresNothing ==
    [][/\ \A k \in DOMAIN cache' :
            (k \notin DOMAIN cache \/ cache'[k] # cache[k]) =>
                \E r \in Reqs : \E i \in 1..Len(req[r].calls) :
                    /\ PutsNow(r, i)
                    /\ KeyOf(req[r].calls[i]) = k
                    /\ cache'[k].value = req'[r].calls[i].val
       /\ (\E r \in Reqs : \E i \in 1..Len(req[r].calls) :
               req[r].calls[i].st = "flight" /\ req'[r].calls[i].st = "err")
            => cache' = cache
       /\ (/\ Lookups = {}
           /\ ~\E r \in Reqs : \E i \in 1..Len(req[r].calls) : PutsNow(r, i))
            => cache' = cache
       /\ \A k \in DOMAIN cache \ DOMAIN cache' :
            /\ now > cache[k].until
            /\ \E p \in Lookups : KeyOf(req'[p[1]].calls[p[2]]) = k]_vars

\* a call whose lookup deleted the expired entry of its key and whose GET
\* then failed: the key has no entry
C19_Witness ==
    \E r1 \in Reqs, r2 \in Reqs :
        \E i1 \in 1..Len(req[r1].calls), i2 \in 1..Len(req[r2].calls) :
            /\ req[r1].calls[i1].st = "ok" /\ ~req[r1].calls[i1].hit
            /\ KeyOf(req[r1].calls[i1]) = KeyOf(req[r2].calls[i2])
            /\ req[r2].calls[i2].st = "err"
            /\ req[r2].calls[i2].err \in Failures
            /\ req[r2].calls[i2].at > req[r1].calls[i1].end + TTL
            /\ KeyOf(req[r2].calls[i2]) \notin DOMAIN cache

\* C20: the calls of a batch are made in pairs, the pair of item k being its
\* calls 2k-1 (coles) and 2k (woolworths) for the k-th name, both started in
\* the same step and so before a response for either arrives; when the pair
\* of an item starts, every call of the earlier items has returned its list.
C20_ItemsOneAtATime ==
    [][\A r \in Reqs :
         req'[r].kind = "bulk" =>
            /\ Len(req'[r].calls) % 2 = 0
            /\ Len(req'[r].calls) <= 2 * Len(req'[r].names)
            /\ \A i \in Started(r) :
                  /\ Sibling(i) \in Started(r)
                  /\ req'[r].calls[i].query = req'[r].names[(i + 1) \div 2]
                  /\ req'[r].calls[i].store
                        = (IF i % 2 = 1 THEN ColesName ELSE WoolworthsName)
                  /\ \A j \in 1..(i - 1) :
                        j # Sibling(i) => req'[r].calls[j].st = "ok"]_vars

\* a batch of two items whose first pair returned its lists from the
\* providers and whose second pair has its GETs out
C20_Witness ==
    \E r \in Reqs :
        /\ req[r].kind = "bulk"
        /\ Len(req[r].calls) = 4
        /\ req[r].calls[1].st = "ok" /\ ~req[r].calls[1].hit
        /\ req[r].calls[2].st = "ok" /\ ~req[r].calls[2].hit
        /\ req[r].calls[3].st = "flight"
        /\ req[r].calls[4].st = "flight"
        /\ req[r].resp = <<>>

=============================================================================
